---- MODULE Spec2Model ----
(***************************************************************************)
(* Navigation stack coordinator of crates/slint-android:                   *)
(*   src/navigation_handler.rs  (global stack, global UI handle, push_page,*)
(*                               pop_page, current_page, exitOnBack)       *)
(*   src/lib.rs                 (android_main: the UI handlers)            *)
(* One UI thread runs android_main, the UI handlers and the tasks of the   *)
(* event loop; the host platform calls exitOnBack on other threads.        *)
(***************************************************************************)
EXTENDS Integers, Sequences, FiniteSets, TLC

\* ---------------------------------------------------------------- bounds
MaxDepth == 3      \* pushes are issued only while the stack is shorter
MaxQueue == 2      \* exitOnBack is called only while fewer tasks are pending

\* ---------------------------------------------------------------- values
COUNTER == "COUNTER"
Pages   == {COUNTER, "A"}
AppWeak == "app_weak"        \* lib.rs line 11: app.as_weak()
Handles == {AppWeak, "other_weak"}
NoHandle == "unset"

UI  == "ui"
JNI == {"j1", "j2"}
Threads == {UI} \cup JNI

NoRet == "-"

VARIABLES
    stackSet,    \* NAVIGATION_STACK holds a value
    stack,       \* the Vec<Pages> inside the Mutex
    poisoned,    \* the Mutex is poisoned
    lockOwner,   \* the thread holding the MutexGuard, or "none"
    appHandle,   \* APP_HANDLE: NoHandle while unset
    queue,       \* closures handed to slint::invoke_from_event_loop
    uiPage,      \* PageNavigator.current_page of the AppWindow
    uiAlive,     \* the AppWindow still exists (Weak::upgrade succeeds)
    loopUp,      \* the event loop accepts invoke_from_event_loop
    crashed,     \* the process was aborted
    pc,          \* position of every thread
    ctx,         \* what the UI thread is running: a direct call or a handler
    arg,         \* page argument (push_page) / new_top (exitOnBack)
    ret,         \* value returned by the thread's last call
    pre,         \* history: the stack when the thread entered its critical section
    lastPush,    \* history: <<the stack at the call>> of a push_page no other operation followed yet, else <<>>
    hist         \* history: the operations completed so far (kept by SpecScenario only)

vars == <<stackSet, stack, poisoned, lockOwner, appHandle, queue, uiPage,
          uiAlive, loopUp, crashed, pc, ctx, arg, ret, pre, lastPush, hist>>

sharedVars == <<stackSet, stack, poisoned, lockOwner, appHandle>>
uiVars     == <<queue, uiPage, uiAlive, loopUp>>

\* ------------------------------------------------------- Vec operations
\* stack.last()
Last_first(s) == s[1]
Last(s) == s[Len(s)]

\* stack.pop() on a non-empty Vec
PopVec_head(s) == Tail(s)
PopVec(s) == SubSeq(s, 1, Len(s) - 1)

\* stack.push(page)
PushVec_front(s, page) == <<page>> \o s
PushVec(s, page) == Append(s, page)

\* the guard `stack.len() > 1` of pop_page and exitOnBack
CanPop_nonempty(s) == Len(s) > 0
CanPop_keep_two(s) == Len(s) > 2
CanPop(s) == Len(s) > 1

\* vec![Pages::COUNTER]
RootStack == <<COUNTER>>

\* OnceCell::set: the first value wins, a later set is ignored (.ok())
OnceSet_overwrite(old, isSet, new) == new
OnceSet(old, isSet, new) == IF isSet THEN old ELSE new

\* NAVIGATION_STACK.get().is_some()
StackIsSet_always == TRUE
StackIsSet == stackSet

\* ------------------------------------------------------------ the state
Init ==
    /\ stackSet = FALSE
    /\ stack = <<>>
    /\ poisoned = FALSE
    /\ lockOwner = "none"
    /\ appHandle = NoHandle
    /\ queue = <<>>
    /\ uiPage = COUNTER
    /\ uiAlive = TRUE
    /\ loopUp = TRUE
    /\ crashed = FALSE
    /\ pc = [t \in Threads |-> "idle"]
    /\ ctx = "direct"
    /\ arg = [t \in Threads |-> COUNTER]
    /\ ret = [t \in Threads |-> NoRet]
    /\ pre = [t \in Threads |-> <<>>]
    /\ lastPush = <<>>
    /\ hist = <<>>

Running(t) == ~crashed /\ pc[t] # "dead"

Goto(t, l) == pc' = [pc EXCEPT ![t] = l]

\* the call returned: its locals go out of scope
Forget(t) ==
    /\ ctx' = "direct"
    /\ arg' = [arg EXCEPT ![t] = COUNTER]
    /\ ret' = [ret EXCEPT ![t] = NoRet]
    /\ pre' = [pre EXCEPT ![t] = <<>>]

\* --------------------------------------------- init_navigation_state
\* line 14: APP_HANDLE.set(handle).ok(); android_main passes app_weak
init_publish_stack_first(h) ==
    /\ Running(UI) /\ pc[UI] = "idle"
    /\ uiAlive
    /\ appHandle = NoHandle => h = AppWeak
    /\ stack' = OnceSet(stack, stackSet, RootStack)
    /\ stackSet' = TRUE
    /\ arg' = [arg EXCEPT ![UI] = h]
    /\ Goto(UI, "init_stack")
    /\ lastPush' = <<>>
    /\ UNCHANGED <<appHandle, poisoned, lockOwner, uiVars, crashed, ctx, ret, pre>>
init_set_handle(h) ==
    /\ Running(UI) /\ pc[UI] = "idle"
    /\ uiAlive
    /\ appHandle = NoHandle => h = AppWeak
    /\ appHandle' = OnceSet(appHandle, appHandle # NoHandle, h)
    /\ arg' = [arg EXCEPT ![UI] = h]
    /\ Goto(UI, "init_stack")
    /\ lastPush' = <<>>
    /\ UNCHANGED <<stackSet, stack, poisoned, lockOwner, uiVars, crashed, ctx, ret, pre>>

\* lines 16-17: NAVIGATION_STACK.set(Mutex::new(vec![COUNTER])).ok()
init_set_stack ==
    /\ Running(UI) /\ pc[UI] = "init_stack"
    /\ stack' = OnceSet(stack, stackSet, RootStack)
    /\ stackSet' = TRUE
    /\ Goto(UI, "init_ret")
    /\ UNCHANGED <<poisoned, lockOwner, appHandle, uiVars, crashed, ctx, arg, ret, pre, lastPush>>

\* line 18: init_navigation_state returns
init_ret ==
    /\ Running(UI) /\ pc[UI] = "init_ret"
    /\ Goto(UI, "idle")
    /\ Forget(UI)
    /\ UNCHANGED <<sharedVars, uiVars, crashed, lastPush>>

\* ------------------------------------------------------------- push_page
\* push_page(page) is called, directly or by the navigate-to handler
\* (lib.rs lines 18-20); line 21: NAVIGATION_STACK.get()
push_call(c, page) ==
    /\ Running(UI) /\ pc[UI] = "idle"
    /\ c \in {"direct", "nav_to"}
    /\ c = "nav_to" => stackSet /\ uiAlive /\ loopUp
    /\ ctx' = c
    /\ arg' = [arg EXCEPT ![UI] = page]
    /\ lastPush' = IF stackSet THEN <<stack>> ELSE <<>>
    /\ Goto(UI, IF StackIsSet THEN "push_lock" ELSE "push_ret")
    /\ UNCHANGED <<sharedVars, uiVars, crashed, ret, pre>>

\* lines 22-29: mutex.lock(); on Ok stack.push(page) and the guard is dropped;
\* a poisoned mutex yields Err and the body is skipped
push_lock ==
    /\ Running(UI) /\ pc[UI] = "push_lock"
    /\ lockOwner = "none"
    /\ IF poisoned
         THEN UNCHANGED <<stack, pre>>
         ELSE /\ pre' = [pre EXCEPT ![UI] = <<stack>>]
              /\ stack' = PushVec(stack, arg[UI])
    /\ Goto(UI, "push_ret")
    /\ UNCHANGED <<stackSet, poisoned, lockOwner, appHandle, uiVars, crashed, ctx, arg, ret, lastPush>>

\* line 31: push_page returns; lib.rs lines 21-25: the navigate-to handler
\* then calls set_current_page(page)
push_ret ==
    /\ Running(UI) /\ pc[UI] = "push_ret"
    /\ uiPage' = IF ctx = "nav_to" THEN arg[UI] ELSE uiPage
    /\ Goto(UI, "idle")
    /\ Forget(UI)
    /\ UNCHANGED <<sharedVars, queue, uiAlive, loopUp, crashed, lastPush>>

\* -------------------------------------------------------------- pop_page
\* pop_page() is called, directly or by the navigate-back handler
\* (lib.rs lines 30-34); line 34: NAVIGATION_STACK.get(), line 43 when unset
pop_call(c) ==
    /\ Running(UI) /\ pc[UI] = "idle"
    /\ c \in {"direct", "nav_back"}
    /\ c = "nav_back" => stackSet /\ uiAlive /\ loopUp
    /\ ctx' = c
    /\ IF StackIsSet
         THEN Goto(UI, "pop_lock") /\ UNCHANGED ret
         ELSE Goto(UI, "pop_ret") /\ ret' = [ret EXCEPT ![UI] = "false"]
    /\ UNCHANGED <<sharedVars, uiVars, crashed, arg, pre, lastPush>>

\* lines 35-43: mutex.lock(); pop the tail when more than the root is left;
\* Err on a poisoned mutex falls through to `false`
pop_lock ==
    /\ Running(UI) /\ pc[UI] = "pop_lock"
    /\ lockOwner = "none"
    /\ IF poisoned
         THEN /\ ret' = [ret EXCEPT ![UI] = "false"]
              /\ UNCHANGED <<stack, pre>>
         ELSE /\ pre' = [pre EXCEPT ![UI] = <<stack>>]
              /\ IF CanPop(stack)
                   THEN stack' = PopVec(stack) /\ ret' = [ret EXCEPT ![UI] = "true"]
                   ELSE stack' = stack /\ ret' = [ret EXCEPT ![UI] = "false"]
    /\ Goto(UI, "pop_ret")
    /\ UNCHANGED <<stackSet, poisoned, lockOwner, appHandle, uiVars, crashed, ctx, arg, lastPush>>

\* pop_page returns; lib.rs lines 34-35: after `true` the handler calls
\* current_page(): line 47 NAVIGATION_STACK.get()
pop_ret ==
    /\ Running(UI) /\ pc[UI] = "pop_ret"
    /\ lastPush' = <<>>
    /\ IF ctx = "nav_back" /\ ret[UI] = "true"
         THEN /\ Goto(UI, "cur_lock")
              /\ ret' = [ret EXCEPT ![UI] = NoRet]
              /\ UNCHANGED <<ctx, arg, pre>>
         ELSE /\ Goto(UI, "idle")
              /\ Forget(UI)
    /\ UNCHANGED <<sharedVars, uiVars, crashed>>

\* ---------------------------------------------------------- current_page
\* current_page() is called directly; line 47: NAVIGATION_STACK.get(),
\* line 52: None when unset
cur_call ==
    /\ Running(UI) /\ pc[UI] = "idle"
    /\ ctx' = "direct"
    /\ lastPush' = <<>>
    /\ IF StackIsSet
         THEN Goto(UI, "cur_lock") /\ UNCHANGED ret
         ELSE Goto(UI, "cur_ret") /\ ret' = [ret EXCEPT ![UI] = "None"]
    /\ UNCHANGED <<sharedVars, uiVars, crashed, arg, pre>>

\* lines 48-52: mutex.lock(); stack.last().cloned(); Err on a poisoned mutex
\* falls through to None
cur_lock ==
    /\ Running(UI) /\ pc[UI] = "cur_lock"
    /\ lockOwner = "none"
    /\ ret' = [ret EXCEPT ![UI] =
                 IF poisoned \/ stack = <<>> THEN "None" ELSE Last(stack)]
    /\ Goto(UI, "cur_ret")
    /\ UNCHANGED <<sharedVars, uiVars, crashed, ctx, arg, pre, lastPush>>

\* current_page returns; lib.rs lines 35-41: on Some(top) the navigate-back
\* handler calls set_current_page(top)
cur_ret ==
    /\ Running(UI) /\ pc[UI] = "cur_ret"
    /\ uiPage' = IF ctx = "nav_back" /\ ret[UI] # "None" THEN ret[UI] ELSE uiPage
    /\ Goto(UI, "idle")
    /\ Forget(UI)
    /\ UNCHANGED <<sharedVars, queue, uiAlive, loopUp, crashed, lastPush>>

\* ------------------------------ Java_slint_router_JNINavigationHandler_exitOnBack
Active(t) == pc[t] \notin {"idle", "dead"}

\* calls of exitOnBack that may still hand a closure to the event loop
Pending == Cardinality({t \in JNI : Active(t)})

\* the closure of lines 73-77: the cloned handle and the cloned page
Task(h, page) == [handle |-> h, page |-> page]

\* slint::invoke_from_event_loop(closure) on a running loop: the closure is
\* appended to the loop's queue, nothing of the UI is touched
invoke_in_place(task) ==
    uiPage' = task.page /\ UNCHANGED queue
invoke_from_event_loop(task) ==
    queue' = Append(queue, task) /\ UNCHANGED uiPage

\* line 74: handle_copy.upgrade() is Some while the AppWindow exists
Upgrades_always(alive) == TRUE
Upgrades(alive) == alive

\* line 63: the MutexGuard `stack` lives to the end of the block (line 81)
GuardOwner_released(t) == "none"
GuardOwner(t) == t

\* a panic inside the extern "C" function: with unwinding the locals are
\* dropped (a held MutexGuard poisons and unlocks the mutex) and the process
\* aborts when the unwinding reaches the function's boundary; a build with
\* panic=abort aborts at once
Panic(t, holdsGuard) ==
    \/ /\ Goto(t, "unwound")
       /\ poisoned' = (poisoned \/ holdsGuard)
       /\ lockOwner' = IF holdsGuard THEN "none" ELSE lockOwner
       /\ UNCHANGED crashed
    \/ /\ Goto(t, "dead")
       /\ crashed' = TRUE
       /\ UNCHANGED <<poisoned, lockOwner>>

\* the host platform calls exitOnBack on thread t; line 62:
\* NAVIGATION_STACK.get(), lines 85-88: true when unset
exit_call(t) ==
    /\ Running(t) /\ pc[t] = "idle"
    /\ Len(queue) + Pending < MaxQueue
    /\ IF StackIsSet
         THEN Goto(t, "exit_lock") /\ UNCHANGED ret
         ELSE Goto(t, "exit_ret") /\ ret' = [ret EXCEPT ![t] = "true"]
    /\ UNCHANGED <<sharedVars, uiVars, crashed, ctx, arg, pre, lastPush>>

\* line 63: mutex.lock().unwrap(); lines 64-67: pop and read the new top;
\* lines 81-84: report exit at the root and drop the guard
exit_lock(t) ==
    /\ Running(t) /\ pc[t] = "exit_lock"
    /\ lockOwner = "none"
    /\ IF poisoned
         THEN /\ Panic(t, FALSE)
              /\ UNCHANGED <<stack, arg, ret, pre, lastPush>>
         ELSE /\ pre' = [pre EXCEPT ![t] = <<stack>>]
              /\ lastPush' = <<>>
              /\ IF CanPop(stack)
                   THEN /\ stack' = PopVec(stack)
                        /\ UNCHANGED ret
                        /\ IF PopVec(stack) = <<>>
                             THEN \* line 66: stack.last().unwrap() on None
                                  Panic(t, TRUE) /\ UNCHANGED arg
                             ELSE /\ arg' = [arg EXCEPT ![t] = Last(PopVec(stack))]
                                  /\ lockOwner' = GuardOwner(t)
                                  /\ Goto(t, "exit_sched")
                                  /\ UNCHANGED <<poisoned, crashed>>
                   ELSE /\ ret' = [ret EXCEPT ![t] = "true"]
                        /\ Goto(t, "exit_ret")
                        /\ UNCHANGED <<stack, arg, lockOwner, poisoned, crashed>>
    /\ UNCHANGED <<stackSet, appHandle, uiVars, ctx>>

\* lines 70-80: slint::invoke_from_event_loop(closure).unwrap() under the
\* guard; then the value is false and the guard is dropped
exit_sched(t) ==
    /\ Running(t) /\ pc[t] = "exit_sched"
    /\ IF appHandle # NoHandle /\ ~loopUp
         THEN /\ Panic(t, TRUE)
              /\ UNCHANGED <<queue, uiPage, ret>>
         ELSE /\ IF appHandle # NoHandle
                   THEN invoke_from_event_loop(Task(appHandle, arg[t]))
                   ELSE UNCHANGED <<queue, uiPage>>
              /\ ret' = [ret EXCEPT ![t] = "false"]
              /\ lockOwner' = "none"
              /\ Goto(t, "exit_ret")
              /\ UNCHANGED <<poisoned, crashed>>
    /\ UNCHANGED <<stackSet, stack, appHandle, uiAlive, loopUp, ctx, arg, pre, lastPush>>

\* line 90: should_exit as jboolean
exit_ret(t) ==
    /\ Running(t) /\ pc[t] = "exit_ret"
    /\ Goto(t, "idle")
    /\ arg' = [arg EXCEPT ![t] = COUNTER]
    /\ ret' = [ret EXCEPT ![t] = NoRet]
    /\ pre' = [pre EXCEPT ![t] = <<>>]
    /\ UNCHANGED <<sharedVars, uiVars, crashed, ctx, lastPush>>

\* the unwinding reached the boundary of the extern "C" function
abort(t) ==
    /\ Running(t) /\ pc[t] = "unwound"
    /\ crashed' = TRUE
    /\ Goto(t, "dead")
    /\ UNCHANGED <<sharedVars, uiVars, ctx, arg, ret, pre, lastPush>>

\* ------------------------------------------------------------ event loop
\* lines 73-77: the event loop runs the oldest closure on the UI thread
run_task ==
    /\ Running(UI) /\ pc[UI] = "idle"
    /\ loopUp
    /\ queue # <<>>
    /\ arg' = [arg EXCEPT ![UI] = Head(queue).page]
    /\ IF Upgrades(uiAlive)
         THEN uiPage' = Head(queue).page /\ ret' = [ret EXCEPT ![UI] = "shown"]
         ELSE uiPage' = uiPage /\ ret' = [ret EXCEPT ![UI] = "skipped"]
    /\ queue' = Tail(queue)
    /\ Goto(UI, "task_ret")
    /\ UNCHANGED <<sharedVars, uiAlive, loopUp, crashed, ctx, pre, lastPush>>

\* line 77: the closure ends
task_ret ==
    /\ Running(UI) /\ pc[UI] = "task_ret"
    /\ Goto(UI, "idle")
    /\ Forget(UI)
    /\ UNCHANGED <<sharedVars, uiVars, crashed, lastPush>>

\* the AppWindow behind the stored handle is destroyed while the event loop
\* still runs (init_navigation_state takes any Weak<AppWindow>)
destroy_window ==
    /\ Running(UI) /\ pc[UI] = "idle"
    /\ stackSet
    /\ loopUp
    /\ uiAlive
    /\ uiAlive' = FALSE
    /\ UNCHANGED <<sharedVars, queue, uiPage, loopUp, crashed, pc, ctx, arg, ret, pre, lastPush>>

\* lib.rs line 45: app.run() returns, the event loop is gone
quit_loop ==
    /\ Running(UI) /\ pc[UI] = "idle"
    /\ stackSet
    /\ loopUp
    /\ loopUp' = FALSE
    /\ UNCHANGED <<sharedVars, queue, uiPage, uiAlive, crashed, pc, ctx, arg, ret, pre, lastPush>>

\* lib.rs line 46: android_main ends and drops the AppWindow
drop_app ==
    /\ Running(UI) /\ pc[UI] = "idle"
    /\ ~loopUp
    /\ uiAlive
    /\ uiAlive' = FALSE
    /\ UNCHANGED <<sharedVars, queue, uiPage, loopUp, crashed, pc, ctx, arg, ret, pre, lastPush>>

\* ------------------------------------------------------------ the system
Keep == UNCHANGED hist

Next ==
    \/ \E h \in Handles : init_set_handle(h) /\ Keep
    \/ init_set_stack /\ Keep
    \/ init_ret /\ Keep
    \/ \E c \in {"direct", "nav_to"}, p \in Pages :
          Len(stack) < MaxDepth /\ push_call(c, p) /\ Keep
    \/ push_lock /\ Keep
    \/ push_ret /\ Keep
    \/ \E c \in {"direct", "nav_back"} : pop_call(c) /\ Keep
    \/ pop_lock /\ Keep
    \/ pop_ret /\ Keep
    \/ cur_call /\ Keep
    \/ cur_lock /\ Keep
    \/ cur_ret /\ Keep
    \/ \E t \in JNI : exit_call(t) /\ Keep
    \/ \E t \in JNI : exit_lock(t) /\ Keep
    \/ \E t \in JNI : exit_sched(t) /\ Keep
    \/ \E t \in JNI : exit_ret(t) /\ Keep
    \/ \E t \in JNI : abort(t) /\ Keep
    \/ run_task /\ Keep
    \/ task_ret /\ Keep
    \/ quit_loop /\ Keep
    \/ drop_app /\ Keep
    \/ destroy_window /\ Keep

Spec == Init /\ [][Next]_vars

\* --------------------------------------------------------- the application
\* what android_main does (lib.rs lines 7-46): one call of
\* init_navigation_state with app_weak, then push_page, pop_page and
\* current_page only from the two UI handlers while the event loop runs
NextApp ==
    \/ appHandle = NoHandle /\ init_set_handle(AppWeak) /\ Keep
    \/ init_set_stack /\ Keep
    \/ init_ret /\ Keep
    \/ \E p \in Pages : Len(stack) < MaxDepth /\ push_call("nav_to", p) /\ Keep
    \/ push_lock /\ Keep
    \/ push_ret /\ Keep
    \/ pop_call("nav_back") /\ Keep
    \/ pop_lock /\ Keep
    \/ pop_ret /\ Keep
    \/ cur_lock /\ Keep
    \/ cur_ret /\ Keep
    \/ \E t \in JNI : exit_call(t) /\ Keep
    \/ \E t \in JNI : exit_lock(t) /\ Keep
    \/ \E t \in JNI : exit_sched(t) /\ Keep
    \/ \E t \in JNI : exit_ret(t) /\ Keep
    \/ \E t \in JNI : abort(t) /\ Keep
    \/ run_task /\ Keep
    \/ task_ret /\ Keep
    \/ quit_loop /\ Keep
    \/ drop_app /\ Keep

SpecApp == Init /\ [][NextApp]_vars

\* ------------------------------------------- a sequential run (Scenario C)
\* initialize, three navigate-to events, three calls of exitOnBack, one after
\* the other; every completed operation is appended to hist
AllIdle == \A t \in Threads : pc[t] = "idle"

ScenarioPages == Pages \cup {"B", "C"}

Done(op, val) == [op |-> op, val |-> val, top |-> stack'[Len(stack')]]

scn_init_handle ==
    hist = <<>> /\ init_set_handle(AppWeak) /\ UNCHANGED hist

scn_init_stack == init_set_stack /\ UNCHANGED hist

scn_init_ret == init_ret /\ hist' = Append(hist, Done("init", NoRet))

scn_push_call ==
    /\ Len(hist) \in 1..3 /\ AllIdle
    /\ \E p \in ScenarioPages : push_call("nav_to", p)
    /\ UNCHANGED hist

scn_push_lock == push_lock /\ UNCHANGED hist

scn_push_ret == push_ret /\ hist' = Append(hist, Done("push", arg[UI]))

scn_exit_call ==
    /\ Len(hist) \in 4..6 /\ AllIdle
    /\ \E t \in JNI : exit_call(t)
    /\ UNCHANGED hist

scn_exit_lock == \E t \in JNI : exit_lock(t) /\ UNCHANGED hist

scn_exit_sched == \E t \in JNI : exit_sched(t) /\ UNCHANGED hist

scn_exit_ret ==
    \E t \in JNI : exit_ret(t) /\ hist' = Append(hist, Done("exit", ret[t]))

scn_run_task == run_task /\ UNCHANGED hist

scn_task_ret == task_ret /\ UNCHANGED hist

NextScenario ==
    \/ scn_init_handle
    \/ scn_init_stack
    \/ scn_init_ret
    \/ scn_push_call
    \/ scn_push_lock
    \/ scn_push_ret
    \/ scn_exit_call
    \/ scn_exit_lock
    \/ scn_exit_sched
    \/ scn_exit_ret
    \/ scn_run_task
    \/ scn_task_ret

SpecScenario == Init /\ [][NextScenario]_vars

\* ---------------------------------------------------------------- claims
\* the element below the top of a stack of at least two elements
SecondFromTop(s) == s[Len(s) - 1]

\* all elements but the tail
Front(s) == [i \in 1..(Len(s) - 1) |-> s[i]]

\* C1: once NAVIGATION_STACK is set, the stack always holds at least one
\* element and its bottom element is the root page COUNTER
C1_RootInvariant ==
    stackSet => (Len(stack) >= 1 /\ stack[1] = COUNTER)

\* exitOnBack and pop_page both ran at the root and left it in place
C1_Witness ==
    /\ stack = <<COUNTER>>
    /\ pc[UI] = "pop_ret" /\ ret[UI] = "false" /\ pre[UI] = << <<COUNTER>> >>
    /\ \E t \in JNI : pc[t] = "exit_ret" /\ ret[t] = "true" /\ pre[t] = << <<COUNTER>> >>

\* C2: when exitOnBack returns, it returns true exactly if the stack was unset
\* or held one element when the call took the lock; when it returns false the
\* stack is the locked stack without its tail and the task it appended carries
\* the element that was second from the top
C2_ExitDecision ==
    [][\A t \in JNI :
         (pc[t] # "exit_ret" /\ pc'[t] = "exit_ret") =>
            /\ ret'[t] \in {"true", "false"}
            /\ ret'[t] = "true" <=> (pre'[t] = <<>> \/ Len(pre'[t][1]) = 1)
            /\ ret'[t] = "true" => (stack' = stack /\ queue' = queue)
            /\ ret'[t] = "false" =>
                  /\ stack' = Front(pre'[t][1])
                  /\ queue' = queue \o <<[handle |-> appHandle,
                                          page |-> SecondFromTop(pre'[t][1])]>>
      ]_vars

\* exitOnBack returned false while the UI thread was inside push_page
C2_Witness ==
    \E t \in JNI :
        /\ pc[t] = "exit_ret" /\ ret[t] = "false"
        /\ Len(pre[t][1]) = 3 /\ pre[t][1][2] # pre[t][1][1]
        /\ pc[UI] = "push_lock"
        /\ queue # <<>>

\* C3 (as claimed): whenever the event loop runs a task, the page the task
\* carries is the top of the stack
C3_NoStaleUpdate ==
    [][(Len(queue') < Len(queue)) =>
          (stackSet /\ Head(queue).page = stack[Len(stack)])]_vars

\* C4: pop_page on a stack of one element returns false and
\* leaves the stack alone; on a longer stack it removes exactly the tail and
\* returns true
C4_PopAtRoot ==
    [][(pc[UI] = "pop_lock" /\ pc'[UI] = "pop_ret") =>
          IF Len(stack) = 1
            THEN ret'[UI] = "false" /\ stack' = stack
            ELSE ret'[UI] = "true" /\ stack' = Front(stack)]_vars

\* pop_page returned false at the root while exitOnBack was waiting for the lock
C4_Witness ==
    /\ pc[UI] = "pop_ret" /\ ret[UI] = "false"
    /\ pre[UI] = << <<COUNTER>> >> /\ stack = <<COUNTER>>
    /\ \E t \in JNI : pc[t] = "exit_lock"

\* C5: when pop_page returns right after a push_page on an
\* initialized stack, no other operation between them, it returns true and the
\* stack is the one before the push
C5_PushPopDuality ==
    (pc[UI] = "pop_ret" /\ lastPush # <<>>) =>
        (ret[UI] = "true" /\ stack = lastPush[1])

\* push_page(A) on [COUNTER, A] followed by pop_page, which returned true
C5_Witness ==
    /\ pc[UI] = "pop_ret" /\ ret[UI] = "true"
    /\ lastPush = << <<COUNTER, "A">> >>
    /\ pre[UI] = << <<COUNTER, "A", "A">> >>

\* C6 (as claimed): from [root, A, B, C] three consecutive exitOnBack calls
\* return false, false, true with tops B and A, and leave [root]
C6_ScenarioC_claimed ==
    Len(hist) = 7 =>
        /\ hist[5].val = "false" /\ hist[5].top = hist[3].val
        /\ hist[6].val = "false" /\ hist[6].top = hist[2].val
        /\ hist[7].val = "true"
        /\ stack = <<COUNTER>>

\* C6 (amended): from [root, A, B, C] three consecutive exitOnBack calls
\* return false, false, false with tops B, A and root, and leave [root]
C6_ScenarioC ==
    Len(hist) = 7 =>
        /\ hist[5].val = "false" /\ hist[5].top = hist[3].val
        /\ hist[6].val = "false" /\ hist[6].top = hist[2].val
        /\ hist[7].val = "false" /\ hist[7].top = COUNTER
        /\ stack = <<COUNTER>>

\* the scenario ran to its end with the pages A, B, C
C6_Witness ==
    /\ Len(hist) = 7
    /\ hist[2].val = "A" /\ hist[3].val = "B" /\ hist[4].val = "C"
    /\ hist[7].op = "exit"

\* C7 (as claimed): exitOnBack on a poisoned mutex returns true, leaves the
\* stack and the queue alone and does not panic
C7_PoisonedExits ==
    [][\A t \in JNI :
         (pc[t] = "exit_lock" /\ poisoned /\ pc'[t] # "exit_lock") =>
            /\ pc'[t] = "exit_ret" /\ ret'[t] = "true"
            /\ stack' = stack /\ queue' = queue
            /\ ~crashed']_vars

\* C8 (as claimed): no call ever panics and the process is never aborted
C8_NeverCrash ==
    ~crashed /\ \A t \in Threads : pc[t] \notin {"unwound", "dead"}

\* C9: before init_navigation_state is called, exitOnBack returns true and
\* schedules nothing, push_page does nothing, pop_page returns false,
\* current_page returns None, and no state changes
C9_Uninitialized ==
    [][(appHandle = NoHandle /\ ~stackSet /\ pc'[UI] # "init_stack") =>
          /\ UNCHANGED <<stackSet, stack, poisoned, lockOwner, appHandle,
                         queue, uiPage, crashed>>
          /\ \A t \in JNI : (pc[t] = "idle" /\ pc'[t] # "idle") =>
                 (pc'[t] = "exit_ret" /\ ret'[t] = "true")
          /\ (pc[UI] = "idle" /\ pc'[UI] # "idle") =>
                 \/ pc'[UI] = "push_ret"
                 \/ pc'[UI] = "pop_ret" /\ ret'[UI] = "false"
                 \/ pc'[UI] = "cur_ret" /\ ret'[UI] = "None"]_vars

\* pop_page and exitOnBack both returned before any initialization
C9_Witness ==
    /\ appHandle = NoHandle /\ ~stackSet
    /\ pc[UI] = "pop_ret" /\ ret[UI] = "false"
    /\ \E t \in JNI : pc[t] = "exit_ret" /\ ret[t] = "true"

\* C10: a call of init_navigation_state after the first one changes neither
\* the stack nor the stored handle
C10_InitIgnored ==
    [][/\ (pc[UI] = "idle" /\ pc'[UI] = "init_stack" /\ appHandle # NoHandle) =>
             (appHandle' = appHandle /\ stack' = stack /\ stackSet' = stackSet)
       /\ (pc[UI] = "init_stack" /\ pc'[UI] = "init_ret" /\ stackSet) =>
             (appHandle' = appHandle /\ stack' = stack /\ stackSet' = stackSet)]_vars

\* a later call with another handle returned, after pushes
C10_Witness ==
    /\ pc[UI] = "init_ret" /\ arg[UI] = "other_weak"
    /\ appHandle = AppWeak /\ Len(stack) = 3

\* C11: the UI's current page is changed only by a step that runs on the UI
\* event loop (the end of a navigate-to or navigate-back handler, or a
\* deferred task taken from the queue); no step of an exitOnBack call
\* changes it
C11_UiThreadOnly ==
    [][(uiPage' # uiPage) =>
          /\ \A t \in JNI : pc'[t] = pc[t]
          /\ \/ pc[UI] = "push_ret" /\ ctx = "nav_to" /\ pc'[UI] = "idle"
             \/ pc[UI] = "cur_ret" /\ ctx = "nav_back" /\ pc'[UI] = "idle"
             \/ pc[UI] = "idle" /\ pc'[UI] = "task_ret"
                   /\ Len(queue') < Len(queue)]_vars

\* exitOnBack popped and returned false while the UI still shows the page it
\* showed before; the update waits in the queue
C11_Witness ==
    /\ \E t \in JNI : pc[t] = "exit_ret" /\ ret[t] = "false"
                         /\ queue # <<>>
                         /\ queue[Len(queue)].page = arg[t]
                         /\ uiPage # arg[t]
    /\ pc[UI] = "idle"

\* C12: current_page leaves the stack as it is and, in every state
\* in which the stack has been initialized, returns its last element; it
\* returns None only if the stack was never initialized
C12_CurrentPage_claimed ==
    [][(pc[UI] # "cur_ret" /\ pc'[UI] = "cur_ret") =>
          /\ stack' = stack /\ stackSet' = stackSet
          /\ ret'[UI] = IF stackSet THEN stack[Len(stack)] ELSE "None"]_vars

\* C13: a deferred task of exitOnBack that runs after the window behind the
\* stored handle was destroyed updates no UI state, changes nothing of the
\* navigation state (the pop that scheduled it stays applied) and fails no
\* thread
C13_StaleHandle ==
    [][(pc[UI] = "idle" /\ pc'[UI] = "task_ret" /\ ~uiAlive) =>
          /\ uiPage' = uiPage
          /\ UNCHANGED <<stackSet, stack, poisoned, lockOwner, appHandle>>
          /\ crashed' = crashed
          /\ \A t \in JNI : pc'[t] = pc[t]
          /\ queue' = Tail(queue)]_vars

\* a task ran with a dead window: it was skipped, the page it carried is not
\* shown, and the stack still has the popped depth
C13_Witness ==
    /\ pc[UI] = "task_ret" /\ ret[UI] = "skipped"
    /\ ~uiAlive /\ ~crashed
    /\ uiPage # arg[UI]
    /\ stack = <<COUNTER>> /\ arg[UI] = COUNTER

\* the application under fair scheduling: a thread inside a call takes its
\* next step, a thread waiting for the mutex gets it when it is free again
\* and again, and the running event loop takes the tasks of its queue
FairApp ==
    /\ WF_vars((init_set_stack \/ init_ret \/ push_ret \/ pop_ret
                  \/ cur_ret \/ task_ret) /\ Keep)
    /\ SF_vars((push_lock \/ pop_lock \/ cur_lock) /\ Keep)
    /\ WF_vars(run_task /\ Keep)
    /\ \A t \in JNI : /\ SF_vars(exit_lock(t) /\ Keep)
                      /\ WF_vars((exit_sched(t) \/ exit_ret(t) \/ abort(t)) /\ Keep)

FairSpecApp == SpecApp /\ FairApp

\* C14: under fair scheduling every call of exitOnBack that has started
\* eventually returns, and every push_page, pop_page and current_page call
\* that waits for the lock eventually gets past it
C14_NoHang ==
    /\ \A t \in JNI : (pc[t] \in {"exit_lock", "exit_sched"}) ~> (pc[t] = "exit_ret")
    /\ (pc[UI] \in {"push_lock", "pop_lock", "cur_lock"})
          ~> (pc[UI] \in {"push_ret", "pop_ret", "cur_ret"})

\* C15: after initialization, whenever no handler and no exitOnBack call is
\* in progress and the event-loop queue is empty, the page the UI shows is
\* the last element of the navigation stack
C15_Lockstep ==
    (stackSet /\ AllIdle /\ queue = <<>>) => uiPage = stack[Len(stack)]

\* C16: when pop_page succeeds inside the navigate-back handler, the page the
\* handler then shows is the element that was second from the top right
\* before its pop, whatever exitOnBack does in between; when pop_page fails
\* at the root, the handler shows nothing and the stack is as it was
C16_AtomicBack ==
    [][/\ (pc[UI] = "cur_ret" /\ ctx = "nav_back" /\ pc'[UI] = "idle") =>
             /\ ret[UI] # "None"
             /\ uiPage' = pre[UI][1][Len(pre[UI][1]) - 1]
       /\ (pc[UI] = "pop_ret" /\ ctx = "nav_back" /\ ret[UI] = "false"
             /\ pc'[UI] # "pop_ret") =>
             /\ pc'[UI] = "idle"
             /\ uiPage' = uiPage /\ queue' = queue /\ stack' = stack
             /\ pre[UI] # <<>> /\ Len(pre[UI][1]) = 1]_vars

\* C17: push_page on an initialized stack whose mutex is not poisoned
\* succeeds for every page at every depth: it appends exactly that page, so
\* the depth grows by one and the elements below stay as they were, and it
\* neither changes the page the UI shows nor puts a task into the queue
C17_PushFrame ==
    [][(pc[UI] = "push_lock" /\ pc'[UI] = "push_ret" /\ stackSet /\ ~poisoned) =>
          /\ Len(stack') = Len(stack) + 1
          /\ stack'[Len(stack')] = arg[UI]
          /\ \A i \in 1..Len(stack) : stack'[i] = stack[i]
          /\ uiPage' = uiPage
          /\ queue' = queue]_vars

\* a direct push_page(p) has appended p at depth three while the UI shows
\* another page and the queue is empty
C17_Witness ==
    /\ pc[UI] = "push_ret" /\ ctx = "direct"
    /\ pre[UI] # <<>> /\ Len(pre[UI][1]) = 2
    /\ stack = pre[UI][1] \o <<arg[UI]>>
    /\ uiPage # arg[UI]
    /\ queue = <<>>

\* C18: an exitOnBack call that returns false has put exactly one task, for
\* the top it uncovered, at the end of the queue, and a call that returns
\* true has put none; nothing else puts tasks into the queue. A pop of
\* exitOnBack is applied only when every earlier pop has its task in the
\* queue already, and until its own task is in the queue the stack stays as
\* that pop left it, so the tasks stand in the queue in the order of the pops
C18_TaskOrder ==
    [][/\ \A t \in JNI : (pc[t] # "exit_ret" /\ pc'[t] = "exit_ret") =>
             IF ret'[t] = "false"
               THEN queue' = queue \o <<Task(appHandle, arg[t])>>
               ELSE queue' = queue
       /\ (Len(queue') > Len(queue)) =>
             \E t \in JNI : pc[t] = "exit_sched" /\ pc'[t] = "exit_ret"
       /\ \A t \in JNI : (pc[t] = "exit_lock" /\ pc'[t] = "exit_sched") =>
             \A u \in JNI \ {t} : pc[u] # "exit_sched"
       /\ \A t \in JNI : (pc[t] = "exit_sched") =>
             /\ stack = Front(pre[t][1])
             /\ arg[t] = stack[Len(stack)]]_vars

\* two concurrent exitOnBack calls both returned false; the queue holds the
\* task of the call that popped at depth three before the task of the call
\* that popped at depth two
C18_Witness ==
    \E t \in JNI : \E u \in JNI \ {t} :
        /\ pc[t] = "exit_ret" /\ ret[t] = "false"
        /\ pc[u] = "exit_ret" /\ ret[u] = "false"
        /\ Len(pre[t][1]) = 3 /\ Len(pre[u][1]) = 2
        /\ Len(queue) = 2
        /\ queue[1].page = arg[t] /\ queue[2].page = arg[u]
        /\ arg[t] # arg[u]

\* C19: init_navigation_state stores the UI handle before it publishes the
\* stack, so in every state, also while exitOnBack races with the
\* initialization, an initialized stack implies a stored UI handle; hence
\* every exitOnBack call that pops and returns false has scheduled its UI
\* update
C19_HandleBeforeStack ==
    [][/\ stackSet => appHandle # NoHandle
       /\ stackSet' => appHandle' # NoHandle
       /\ \A t \in JNI :
             (pc[t] = "exit_sched" /\ pc'[t] = "exit_ret" /\ ret'[t] = "false") =>
                 /\ Len(queue') = Len(queue) + 1
                 /\ queue'[Len(queue')].page = stack[Len(stack)]]_vars

\* an exitOnBack call ran between the two stores of init_navigation_state:
\* the handle is stored, the stack is not yet published, the call returned
\* true
C19_Witness ==
    /\ pc[UI] = "init_stack"
    /\ appHandle = AppWeak /\ ~stackSet
    /\ \E t \in JNI : pc[t] = "exit_ret" /\ ret[t] = "true"
====
